---- MODULE Spec2Model ----
(***************************************************************************)
(* A model of dev/_changelog.py: the git-log parser (_find_changes), the   *)
(* Change and ChangeAspect types, report_changelog and                     *)
(* generate_release_notes.                                                 *)
(*                                                                         *)
(* Python strings are sequences of one-character strings, so that split,   *)
(* startswith and the regular expressions are computed character by        *)
(* character.  An optional value is a sequence of length 0 (None) or 1.    *)
(*                                                                         *)
(* The collaborators are inputs: `git log` gives gitlog_report,            *)
(* github.get_ticket is the function tracker, props.get_version gives      *)
(* build_version.  The lookup of the latest tag (lines 206-220) only       *)
(* selects which log is read and is left out.  str.format in               *)
(* Change.__str__ is kept as the pattern with its arguments.               *)
(***************************************************************************)
EXTENDS Naturals, Sequences, FiniteSets

VARIABLES
    entry,                \* the function that was called
    build_version,        \* props.get_version()
    gitlog_report,        \* the text `git log` returned
    tracker,              \* github.get_ticket: ticket number -> ticket data
    fetch_info,           \* _find_changes' fetch_info argument
    changelines, idx, chash, cmsg, ccmt, changes,   \* _find_changes' locals
    cbody,                \* history: the body lines appended to ccmt
    changes_by_subsystem, \* report_changelog's dict, in insertion order
    cursor,               \* report_changelog: changes grouped so far
    out,                  \* what was printed, in order
    pc,                   \* position in the code
    arg_message, new_change,   \* Change(...) called on its own
    arg_label, new_aspect      \* ChangeAspect(...) called on its own

inputVars == <<entry, build_version, gitlog_report, tracker, fetch_info>>
parseVars == <<changelines, idx, chash, cmsg, ccmt, cbody, changes>>
unitVars == <<arg_message, new_change, arg_label, new_aspect>>
reportVars == <<changes_by_subsystem, cursor>>
vars == <<inputVars, parseVars, reportVars, out, pc, unitVars>>

----------------------------------------------------------------------------
(* Bounds of the checked inputs *)

MaxLines == 4
MaxCommits == 3
MaxMessage == 4
MaxPieces == 3
MaxVersion == 3

----------------------------------------------------------------------------
(* Strings *)

None == <<>>
Some(x) == <<x>>

NL == "\n"
Digits == {"0", "1", "2", "3", "4", "5", "6", "7", "8", "9"}
\* \s, on a line without line breaks
Whitespace == {" ", "\t"}

\* s[a..b], empty when b < a
Sub(s, a, b) == SubSeq(s, a, b)

\* s.startswith(p)
StartsWith(s, p) == Len(s) >= Len(p) /\ Sub(s, 1, Len(p)) = p

\* sub in s
Contains(s, sub) ==
    \E p \in 1..(Len(s) + 1) : StartsWith(Sub(s, p, Len(s)), sub)

\* positions of character c in s
Positions(s, c) == {p \in 1..Len(s) : s[p] = c}

Min(S) == CHOOSE x \in S : \A y \in S : x <= y
Max(S) == CHOOSE x \in S : \A y \in S : x >= y

\* s.split(c): every occurrence of c separates two parts; "" gives [""]
RECURSIVE Split(_, _)
Split(s, c) ==
    IF Positions(s, c) = {} THEN <<s>>
    ELSE LET p == Min(Positions(s, c))
         IN  <<Sub(s, 1, p - 1)>> \o Split(Sub(s, p + 1, Len(s)), c)

\* s.split(c, 1): at most one split, at the first c
SplitOnce(s, c) ==
    IF Positions(s, c) = {} THEN <<s>>
    ELSE LET p == Min(Positions(s, c))
         IN  <<Sub(s, 1, p - 1), Sub(s, p + 1, Len(s))>>

\* c.join(parts)
RECURSIVE Join(_, _)
Join(parts, c) ==
    IF parts = <<>> THEN <<>>
    ELSE IF Len(parts) = 1 THEN parts[1]
    ELSE parts[1] \o <<c>> \o Join(Tail(parts), c)

\* the sequences over S of length 0..n
SeqUpTo(S, n) == UNION {[1..k -> S] : k \in 0..n}

----------------------------------------------------------------------------
(* Change *)

\* the pattern without its "#": any digit passes for a ticket
find_ticket_any_digit(message) ==
    LET ds == {p \in 1..Len(message) : message[p] \in Digits}
    IN  IF ds = {} THEN None ELSE Some(Sub(message, Max(ds), Max(ds)))

\* re.match(r".*#(\d+).*", message): the greedy .* backtracks from the end
\* of the message, so the match is at the last "#" a digit follows, and
\* \d+ takes every digit after it
find_ticket(message) ==
    LET starts == {p \in 1..(Len(message) - 1) :
                     message[p] = "#" /\ message[p + 1] \in Digits}
    IN  IF starts = {} THEN None
        ELSE LET p == Max(starts)
                 e == Max({q \in (p + 1)..Len(message) :
                             \A r \in (p + 1)..q : message[r] \in Digits})
             IN  Some(Sub(message, p + 1, e))

\* re.search(r"\-\s*\[\s*\]\s+(.+)", cline) at start position p: the end of
\* the match of "\-\s*\[\s*\]" (0 when there is none)
BoxEnd(cline, p) ==
    LET n == Len(cline)
        SkipWs(q) == IF \E r \in q..n : cline[r] \notin Whitespace
                     THEN Min({r \in q..n : cline[r] \notin Whitespace})
                     ELSE n + 1
        a == SkipWs(p + 1)
        b == SkipWs(a + 1)
    IN  IF p <= n /\ cline[p] = "-" /\ a <= n /\ cline[a] = "["
           /\ b <= n /\ cline[b] = "]"
        THEN b ELSE 0

\* the group (.+) of the match at p, when "\s+(.+)" matches after the box:
\* \s+ takes the blanks and gives the last one back when nothing follows them
TodoAt(cline, p) ==
    LET n == Len(cline)
        b == BoxEnd(cline, p)
        rest == IF \E r \in (b + 1)..n : cline[r] \notin Whitespace
                THEN Min({r \in (b + 1)..n : cline[r] \notin Whitespace})
                ELSE n + 1
    IN  IF b = 0 \/ rest = b + 1 THEN None
        ELSE IF rest <= n THEN Some(Sub(cline, rest, n))
        ELSE IF n >= b + 2 THEN Some(Sub(cline, n, n))
        ELSE None

\* re.search: the leftmost start position that matches
TodoOfLine(cline) ==
    LET hits == {p \in 1..Len(cline) : TodoAt(cline, p) # None}
    IN  IF hits = {} THEN None ELSE TodoAt(cline, Min(hits))

RECURSIVE TodosOfLines(_)
TodosOfLines(clines) ==
    IF clines = <<>> THEN <<>>
    ELSE TodoOfLine(Head(clines)) \o TodosOfLines(Tail(clines))

\* for cline in comments.split("\n"): todos.append(...) on a match
find_todos(comments) == TodosOfLines(Split(comments, NL))

\* github.get_ticket(ticket_number)
get_ticket_info(ticket_number) == Some(tracker[ticket_number])

\* Change.__init__; message and body are history fields (the subject and the
\* body lines the Change was built from), which the code does not keep
Change(commit_hash, message, comments, fetch, body) ==
    LET commit_ticket == find_ticket(message)
    IN  [commit_hash   |-> commit_hash,
         commit_ticket |-> commit_ticket,
         commit_todos  |-> find_todos(comments),
         ticketdata    |-> IF fetch /\ commit_ticket # None
                           THEN get_ticket_info(commit_ticket[1])
                           ELSE None,
         message       |-> message,
         body          |-> body]

\* str(None), as an f-string formats it
NoneText == <<"N", "o", "n", "e">>

\* Change.ticket: f"#{self._commit_ticket}"
ticket(change) ==
    <<"#">> \o (IF change.commit_ticket = None THEN NoneText
                ELSE change.commit_ticket[1])

----------------------------------------------------------------------------
(* ChangeAspect *)

DefaultPattern ==
    <<"-", " ", "R", "e", "s", "o", "l", "v", "e", "d", " ", "{", "t", "i",
      "c", "k", "e", "t", "}", ":", " ", "{", "t", "i", "t", "l", "e", "}">>

\* "(.+?)(->(.+?))?\]" with the tag ending at t: the optional group is tried
\* first and its custom text is as short as possible
CustomEnds(d, t) ==
    {c \in (t + 3)..(Len(d) - 1) :
        d[t + 1] = "-" /\ d[t + 2] = ">" /\ d[c + 1] = "]"}

TagEnds(d, i) ==
    {t \in (i + 1)..(Len(d) - 1) : CustomEnds(d, t) # {} \/ d[t + 1] = "]"}

\* re.match(r".*\[(.+?)(->(.+?))?\].*", description): the greedy .* settles
\* on the last "[" from which the rest matches; groups 1 and 3
DirectiveMatch(d) ==
    LET opens == {i \in 1..Len(d) : d[i] = "[" /\ TagEnds(d, i) # {}}
    IN  IF opens = {} THEN None
        ELSE LET i == Max(opens)
                 t == Min(TagEnds(d, i))
             IN  Some([tag    |-> Sub(d, i + 1, t),
                       custom |-> IF CustomEnds(d, t) = {} THEN None
                                  ELSE Some(Sub(d, t + 3,
                                                Min(CustomEnds(d, t))))])

\* the custom text taken as the pattern, without the bullet
BulletPatternDropped(custom) == custom

\* f"- {pattern}"
BulletPattern(custom) == <<"-", " ">> \o custom

\* ChangeAspect.__init__
ChangeAspect(lbl) ==
    LET m == DirectiveMatch(lbl.description)
    IN  [label          |-> lbl,
         aspect_type    |-> IF m = None THEN None ELSE Some(m[1].tag),
         aspect_pattern |-> IF m # None /\ m[1].custom # None
                            THEN BulletPattern(m[1].custom[1])
                            ELSE DefaultPattern]

\* ChangeAspect.__hash__: hash(self._label.name).  Python's string hash is
\* taken to be free of collisions on the label names, so the name stands
\* for its hash
AspectHash(x) == x.label.name

\* ChangeAspect.__eq__
AspectEq(x, y) == AspectHash(x) = AspectHash(y)

----------------------------------------------------------------------------
(* Change: the derived properties *)

SubsystemMark == <<"[", "s", "u", "b", "s", "y", "s", "t", "e", "m">>
ClassMark == <<"[", "c", "l", "a", "s", "s">>
HighlightName == <<"H", "i", "g", "h", "l", "i", "g", "h", "t">>

\* [ChangeAspect(x) for x in labels if mark in x.description]
RECURSIVE AspectsOf(_, _)
AspectsOf(labels, mark) ==
    IF labels = <<>> THEN <<>>
    ELSE (IF Contains(Head(labels).description, mark)
          THEN <<ChangeAspect(Head(labels))>> ELSE <<>>)
         \o AspectsOf(Tail(labels), mark)

\* Change.subsystems
subsystems(c) ==
    IF c.ticketdata # None
    THEN AspectsOf(c.ticketdata[1].labels, SubsystemMark) ELSE <<>>

\* Change.classes
classes(c) ==
    IF c.ticketdata # None
    THEN AspectsOf(c.ticketdata[1].labels, ClassMark) ELSE <<>>

\* Change.is_highlighted
is_highlighted(c) ==
    /\ c.ticketdata # None
    /\ \E k \in 1..Len(c.ticketdata[1].labels) :
          c.ticketdata[1].labels[k].name = HighlightName

\* Change.url
url(c) == IF c.ticketdata # None THEN c.ticketdata[1].url ELSE <<>>

\* Change.title
title(c) == IF c.ticketdata # None THEN c.ticketdata[1].title ELSE <<>>

\* Change.__str__: the pattern and the values handed to str.format (the
\* substitution itself is not carried out)
ChangeStr(c) ==
    [pattern |-> IF classes(c) # <<>> /\ classes(c)[1].aspect_pattern # <<>>
                 THEN classes(c)[1].aspect_pattern ELSE DefaultPattern,
     ticket  |-> ticket(c),
     url     |-> url(c),
     title   |-> title(c)]

----------------------------------------------------------------------------
(* _find_changes *)

\* the line at idx (idx counts from 0, as in the code)
Cline == changelines[idx + 1]

\* lines 161-164
CallFindChanges ==
    /\ pc = "call"
    /\ changelines' = Split(gitlog_report, NL)
    /\ idx' = 0
    /\ changes' = <<>>
    /\ pc' = "loop"
    /\ UNCHANGED <<inputVars, chash, cmsg, ccmt, cbody, reportVars, out,
                   unitVars>>

\* lines 165-171: a line that does not split in two is passed over
SkipLine ==
    /\ pc = "loop"
    /\ idx < Len(changelines)
    /\ Len(SplitOnce(Cline, " ")) # 2
    /\ idx' = idx + 1
    /\ UNCHANGED <<inputVars, changelines, chash, cmsg, ccmt, cbody, changes,
                   reportVars, out, pc, unitVars>>

\* lines 165-177: the hash and the subject; changelines[idx] after the
\* increment raises IndexError when the line was the last one
ReadHeader ==
    /\ pc = "loop"
    /\ idx < Len(changelines)
    /\ Len(SplitOnce(Cline, " ")) = 2
    /\ chash' = SplitOnce(Cline, " ")[1]
    /\ cmsg' = SplitOnce(Cline, " ")[2]
    /\ idx' = idx + 1
    /\ ccmt' = <<>>
    /\ cbody' = <<>>
    /\ pc' = IF idx + 1 < Len(changelines) THEN "comments" ELSE "IndexError"
    /\ UNCHANGED <<inputVars, changelines, changes, reportVars, out, unitVars>>

\* lines 185-193
NewChanges(comments, body) ==
    Append(changes, Change(chash, cmsg, comments, fetch_info, body))

\* lines 178-183, and 185-193 after the break at the end of the input
AppendComment ==
    /\ pc = "comments"
    /\ ~StartsWith(Cline, <<"/">>)
    /\ ccmt' = ccmt \o Cline
    /\ cbody' = Append(cbody, Cline)
    /\ IF idx + 1 >= Len(changelines)
       THEN /\ changes' = NewChanges(ccmt', cbody')
            /\ idx' = idx + 2
            /\ pc' = "loop"
       ELSE /\ idx' = idx + 1
            /\ UNCHANGED <<changes, pc>>
    /\ UNCHANGED <<inputVars, changelines, chash, cmsg, reportVars, out,
                   unitVars>>

\* lines 178, 185-193: a line that starts with "/" ends the comments
AppendChange ==
    /\ pc = "comments"
    /\ StartsWith(Cline, <<"/">>)
    /\ changes' = NewChanges(ccmt, cbody)
    /\ idx' = idx + 1
    /\ pc' = "loop"
    /\ UNCHANGED <<inputVars, changelines, chash, cmsg, ccmt, cbody,
                   reportVars, out, unitVars>>

\* lines 165, 194
ReturnChanges ==
    /\ pc = "loop"
    /\ idx >= Len(changelines)
    /\ pc' = IF entry = "_find_changes" THEN "done" ELSE "group"
    /\ UNCHANGED <<inputVars, parseVars, reportVars, out, unitVars>>

----------------------------------------------------------------------------
(* report_changelog *)

\* changes_by_subsystem[subsystem].append(change) on a defaultdict(list): the
\* dict is the sequence of its entries in insertion order, and a change is
\* its position in all_changes
DictAppend(dict, key, n) ==
    IF \E k \in 1..Len(dict) : AspectEq(dict[k].key, key)
    THEN [k \in 1..Len(dict) |->
            IF AspectEq(dict[k].key, key)
            THEN [dict[k] EXCEPT !.value = Append(@, n)] ELSE dict[k]]
    ELSE Append(dict, [key |-> key, value |-> <<n>>])

\* the change filed under its first subsystem only
DictAppendFirst(dict, keys, n) ==
    IF keys = <<>> THEN dict ELSE DictAppend(dict, Head(keys), n)

\* for subsystem in change.subsystems: ...
RECURSIVE DictAppendAll(_, _, _)
DictAppendAll(dict, keys, n) ==
    IF keys = <<>> THEN dict
    ELSE DictAppendAll(DictAppend(dict, Head(keys), n), Tail(keys), n)

\* lines 233-240, one change of all_changes
GroupChange ==
    /\ pc = "group"
    /\ cursor < Len(changes)
    /\ changes_by_subsystem' =
          IF ticket(changes[cursor + 1]) = <<>> THEN changes_by_subsystem
          ELSE DictAppendAll(changes_by_subsystem,
                             subsystems(changes[cursor + 1]), cursor + 1)
    /\ cursor' = cursor + 1
    /\ UNCHANGED <<inputVars, parseVars, out, pc, unitVars>>

Header(text, level) == [kind |-> "header", level |-> level, text |-> text]
Printed(n) == [kind |-> "change", change |-> n, str |-> ChangeStr(changes[n])]

HighlightsText == <<"H", "i", "g", "h", "l", "i", "g", "h", "t", "s">>
ChangesText == <<"C", "h", "a", "n", "g", "e", "s">>

RECURSIVE PrintedHighlights(_)
PrintedHighlights(n) ==
    IF n > Len(changes) THEN <<>>
    ELSE (IF is_highlighted(changes[n]) THEN <<Printed(n)>> ELSE <<>>)
         \o PrintedHighlights(n + 1)

\* lines 243-246
ReportHighlights ==
    /\ pc = "group"
    /\ cursor >= Len(changes)
    /\ out' = out \o <<Header(HighlightsText, 1)>> \o PrintedHighlights(1)
    /\ pc' = "changes"
    /\ UNCHANGED <<inputVars, parseVars, reportVars, unitVars>>

PrintedGroup(g) ==
    <<Header(g.key.label.name, 3)>>
    \o [k \in 1..Len(g.value) |-> Printed(g.value[k])]

RECURSIVE PrintedGroups(_)
PrintedGroups(dict) ==
    IF dict = <<>> THEN <<>>
    ELSE PrintedGroup(Head(dict)) \o PrintedGroups(Tail(dict))

\* lines 249-253
ReportChanges ==
    /\ pc = "changes"
    /\ out' = out \o <<Header(ChangesText, 1)>>
                  \o PrintedGroups(changes_by_subsystem)
    /\ pc' = "done"
    /\ UNCHANGED <<inputVars, parseVars, reportVars, unitVars>>

----------------------------------------------------------------------------
(* generate_release_notes *)

\* s.replace(c, r)
RECURSIVE Replace(_, _, _)
Replace(s, c, r) ==
    IF s = <<>> THEN <<>>
    ELSE (IF Head(s) = c THEN r ELSE <<Head(s)>>) \o Replace(Tail(s), c, r)

\* line 263
UrlSafe(version) == Replace(version, "+", <<"%", "2", "B">>)

\* lines 264-267
BaseUrl(version) ==
    <<"h", "t", "t", "p", "s", ":", "/", "/", "g", "i", "t", "h", "u", "b",
      ".", "c", "o", "m", "/", "e", "i", "r", "a", "n", "n", "e", "j", "a",
      "d", "/", "p", "y", "R", "e", "v", "i", "t", "/", "r", "e", "l", "e",
      "a", "s", "e", "s", "/", "d", "o", "w", "n", "l", "o", "a", "d", "/",
      "v">> \o UrlSafe(version) \o <<"/">>

\* configs.PYREVIT_*INSTALLER_NAME: file name templates holding {version}
InstallerNames ==
    LET base == <<"p", "y", "R", "e", "v", "i", "t", "_">>
        cli == <<"p", "y", "R", "e", "v", "i", "t", "_", "C", "L", "I", "_">>
        signed == <<"_", "s", "i", "g", "n", "e", "d">>
        admin == <<"_", "a", "d", "m", "i", "n", "_", "s", "i", "g", "n", "e",
                   "d">>
    IN  <<[pre |-> base, post |-> signed], [pre |-> base, post |-> admin],
          [pre |-> cli, post |-> signed], [pre |-> cli, post |-> admin]>>

\* NAME.format(version=build_version) + ".exe"
InstallerFile(template, version) ==
    template.pre \o version \o template.post \o <<".", "e", "x", "e">>

\* the link titles of lines 275, 285, 296, 306
LinkTitles(version) ==
    LET base == <<"p", "y", "R", "e", "v", "i", "t", " ">>
        cli == <<"p", "y", "R", "e", "v", "i", "t", " ", "C", "L", "I", " ">>
        inst == <<" ", "I", "n", "s", "t", "a", "l", "l", "e", "r">>
        admin == <<" ", "I", "n", "s", "t", "a", "l", "l", "e", "r", " ", "-",
                   " ", "A", "d", "m", "i", "n", " ", "/", " ", "A", "l", "l",
                   " ", "U", "s", "e", "r", "s", " ", "/", " ", "%", "P", "R",
                   "O", "G", "R", "A", "M", "D", "A", "T", "A", "%">>
    IN  <<base \o version \o inst, base \o version \o admin,
          cli \o version \o inst, cli \o version \o admin>>

\* "- [title](url)" with url=base_url + installer
DownloadLink(n, version) ==
    [kind  |-> "link",
     title |-> LinkTitles(version)[n],
     url   |-> BaseUrl(version) \o InstallerFile(InstallerNames[n], version)]

DownloadsText == <<"D", "o", "w", "n", "l", "o", "a", "d", "s">>

\* lines 261-310; report_changelog follows (line 313)
PrintDownloads ==
    /\ pc = "downloads"
    /\ out' = out \o <<Header(DownloadsText, 1)>>
                  \o [n \in 1..4 |-> DownloadLink(n, build_version)]
    /\ pc' = "call"
    /\ UNCHANGED <<inputVars, parseVars, reportVars, unitVars>>

----------------------------------------------------------------------------
(* Change(...) and ChangeAspect(...) called on their own *)

\* Change.__init__ with fetch_info=False
MakeChange ==
    /\ pc = "change"
    /\ new_change' = Some(Change(<<"h">>, arg_message, <<>>, FALSE, <<>>))
    /\ pc' = "done"
    /\ UNCHANGED <<inputVars, parseVars, reportVars, out, arg_message,
                   arg_label, new_aspect>>

\* ChangeAspect.__init__
MakeAspect ==
    /\ pc = "aspect"
    /\ new_aspect' = Some(ChangeAspect(arg_label))
    /\ pc' = "done"
    /\ UNCHANGED <<inputVars, parseVars, reportVars, out, arg_message,
                   new_change, arg_label>>

----------------------------------------------------------------------------
(* The checked inputs *)

Delimiter == <<"/">>

\* log lines: hash lines, the delimiter, and body lines of every kind
LogLines ==
    {<<"a", " ", "#", "7">>,                  \* a #7
     <<"b", " ", "x">>,                       \* b x
     Delimiter,
     <<"/", "x", " ", "y">>,                  \* /x y
     <<"-", " ", "[", " ", "]", " ", "t">>,   \* - [ ] t
     <<"-", " ", "[", "x", "]", " ", "d">>,   \* - [x] d
     <<"w">>,
     <<>>}

\* commit blocks as `git log` prints them, and a blank line
LogBlocks ==
    {<< <<"a", " ", "#", "7">>, Delimiter >>,
     << <<"b", " ", "#", "8">>, <<"w">>, Delimiter >>,
     << <<"c", " ", "7">>, Delimiter >>,
     << <<>> >>}

RECURSIVE Flatten(_)
Flatten(ss) == IF ss = <<>> THEN <<>> ELSE Head(ss) \o Flatten(Tail(ss))

LabelA == [name |-> <<"A">>,
           description |-> SubsystemMark \o <<"]">>]
LabelB == [name |-> <<"B">>,
           description |-> SubsystemMark \o <<"]">>]
LabelA2 == [name |-> <<"A">>,
            description |-> SubsystemMark \o <<"-", ">", "c", "]">>]
LabelH == [name |-> HighlightName, description |-> <<>>]
LabelC == [name |-> <<"C">>,
           description |-> ClassMark \o <<"-", ">", "F", "]">>]

LabelLists ==
    {<<>>, <<LabelA>>, <<LabelA, LabelB>>, <<LabelB, LabelA2>>,
     <<LabelH, LabelB>>, <<LabelC, LabelA>>}

TicketNumbers == {<<"7">>, <<"8">>}

Trackers ==
    [TicketNumbers ->
        {[title |-> <<"T">>, url |-> <<"u">>, labels |-> ls] :
            ls \in LabelLists}]

\* pieces of label descriptions
DescriptionPieces ==
    {SubsystemMark \o <<"]">>,                           \* [subsystem]
     SubsystemMark \o <<"-", ">", "c", "]">>,            \* [subsystem->c]
     ClassMark \o <<"-", ">", "-", " ", "F", "]">>,      \* [class->- F]
     <<"[", "d", "]">>,                                  \* [d]
     <<"x", " ">>,
     <<"[">>}

MessageChars == {"#", "1", "2", "a", " "}
VersionChars == {"4", ".", "+"}

NoTracker == [n \in {} |-> <<>>]

IdleParse ==
    /\ changelines = <<>> /\ idx = 0 /\ chash = <<>> /\ cmsg = <<>>
    /\ ccmt = <<>> /\ cbody = <<>> /\ changes = <<>>
    /\ changes_by_subsystem = <<>> /\ cursor = 0 /\ out = <<>>

IdleUnits ==
    /\ arg_message = <<>> /\ new_change = None
    /\ arg_label = [name |-> <<>>, description |-> <<>>] /\ new_aspect = None

\* _find_changes(gitlog_report, fetch_info=False) on any text of log lines
InitParse ==
    /\ entry = "_find_changes"
    /\ pc = "call"
    /\ build_version = <<>>
    /\ gitlog_report \in {Join(ls, NL) : ls \in SeqUpTo(LogLines, MaxLines)}
    /\ tracker = NoTracker
    /\ fetch_info = FALSE
    /\ IdleParse /\ IdleUnits

\* report_changelog on a log of commit blocks
Init ==
    /\ entry = "report_changelog"
    /\ pc = "call"
    /\ build_version = <<>>
    /\ gitlog_report \in
          {Join(Flatten(bs), NL) : bs \in SeqUpTo(LogBlocks, MaxCommits)}
    /\ tracker \in Trackers
    /\ fetch_info = TRUE
    /\ IdleParse /\ IdleUnits

\* generate_release_notes for any build version
InitRelease ==
    /\ entry = "generate_release_notes"
    /\ pc = "downloads"
    /\ build_version \in SeqUpTo(VersionChars, MaxVersion)
    /\ gitlog_report \in
          {Join(Flatten(bs), NL) : bs \in [1..2 -> LogBlocks]}
    /\ tracker = [n \in TicketNumbers |->
                    [title |-> <<"T">>, url |-> <<"u">>,
                     labels |-> <<LabelH, LabelB>>]]
    /\ fetch_info = TRUE
    /\ IdleParse /\ IdleUnits

InitIdleInputs ==
    /\ build_version = <<>> /\ gitlog_report = <<>> /\ tracker = NoTracker
    /\ fetch_info = FALSE /\ IdleParse

\* Change(...) on any subject
InitChange ==
    /\ entry = "Change"
    /\ pc = "change"
    /\ InitIdleInputs
    /\ arg_message \in SeqUpTo(MessageChars, MaxMessage)
    /\ new_change = None
    /\ arg_label = [name |-> <<>>, description |-> <<>>] /\ new_aspect = None

\* ChangeAspect(...) on any label description
InitAspect ==
    /\ entry = "ChangeAspect"
    /\ pc = "aspect"
    /\ InitIdleInputs
    /\ arg_message = <<>> /\ new_change = None
    /\ arg_label \in {[name |-> <<"A">>, description |-> Flatten(ps)] :
                         ps \in SeqUpTo(DescriptionPieces, MaxPieces)}
    /\ new_aspect = None

FindChanges ==
    \/ CallFindChanges
    \/ SkipLine
    \/ ReadHeader
    \/ AppendComment
    \/ AppendChange
    \/ ReturnChanges

ReportChangelog ==
    \/ GroupChange
    \/ ReportHighlights
    \/ ReportChanges

NextParse == FindChanges
Next == FindChanges \/ ReportChangelog
NextRelease == PrintDownloads \/ FindChanges \/ ReportChangelog
NextChange == MakeChange
NextAspect == MakeAspect

SpecParse == InitParse /\ [][NextParse]_vars
Spec == Init /\ [][Next]_vars
SpecRelease == InitRelease /\ [][NextRelease]_vars
SpecChange == InitChange /\ [][NextChange]_vars
SpecAspect == InitAspect /\ [][NextAspect]_vars

----------------------------------------------------------------------------
(* The parser: C1, C3, C10 (checked under SpecParse) *)

HasSpace(line) == Positions(line, " ") # {}

\* a log of whole commit blocks: a "<hash> <subject>" line, body lines, and
\* a line that is exactly "/"
RECURSIVE WellFormedBlocks(_)
WellFormedBlocks(lines) ==
    \/ lines = <<>>
    \/ /\ HasSpace(Head(lines))
       /\ Head(lines)[1] \notin {" ", "/"}
       /\ \E j \in 2..Len(lines) : lines[j] = Delimiter
       /\ LET j == Min({k \in 2..Len(lines) : lines[k] = Delimiter})
          IN  WellFormedBlocks(Sub(lines, j + 1, Len(lines)))

WellFormedLog(lines) == lines = << <<>> >> \/ WellFormedBlocks(lines)

\* the hashes of the blocks of a well-formed log, in order
RECURSIVE BlockHashes(_)
BlockHashes(lines) ==
    IF lines = <<>> \/ lines = << <<>> >> THEN <<>>
    ELSE LET j == Min({k \in 2..Len(lines) : lines[k] = Delimiter})
         IN  <<SplitOnce(Head(lines), " ")[1]>>
             \o BlockHashes(Sub(lines, j + 1, Len(lines)))

ChangeHashes == [k \in 1..Len(changes) |-> changes[k].commit_hash]

\* C1: on a well-formed log _find_changes returns one Change per block that
\* a "/" line ends, in input order, with the block's hash; a body line that
\* begins with "/" or holds a space neither ends the block nor starts a
\* Change
C1_OneChangePerBlock ==
    (pc = "done" /\ WellFormedLog(changelines))
        => ChangeHashes = BlockHashes(changelines)

\* C3: the todos of a Change are the texts of its body lines that carry an
\* empty checkbox, one per such line, in body order, each from its own line
C3_TodosPerBodyLine ==
    pc = "done" =>
        \A k \in 1..Len(changes) :
            changes[k].commit_todos = TodosOfLines(changes[k].body)

\* C10: _find_changes never raises, and a block whose delimiter never comes
\* is ended by the end of the input and yields its Change
C10_NeverRaises ==
    /\ pc # "IndexError"
    /\ (/\ pc = "done"
        /\ \A k \in 1..Len(changelines) :
              ~StartsWith(changelines[k], Delimiter)
        /\ \E k \in 1..Len(changelines) : HasSpace(changelines[k]))
       => LET k == Min({j \in 1..Len(changelines) : HasSpace(changelines[j])})
          IN  ChangeHashes = <<SplitOnce(changelines[k], " ")[1]>>

----------------------------------------------------------------------------
(* Change: C2, C6 (checked under SpecChange) *)

\* the digits of the leftmost "#<digits>" of a subject
FirstTicket(m) ==
    LET starts == {p \in 1..(Len(m) - 1) : m[p] = "#" /\ m[p + 1] \in Digits}
    IN  IF starts = {} THEN None
        ELSE LET p == Min(starts)
                 e == Max({q \in (p + 1)..Len(m) :
                             \A r \in (p + 1)..q : m[r] \in Digits})
             IN  Some(Sub(m, p + 1, e))

\* C2: find_ticket returns the digits of the first "#<digits>" of the
\* subject, and no ticket when the subject holds none
C2_FirstTicketWins ==
    new_change # None =>
        new_change[1].commit_ticket = FirstTicket(arg_message)

\* C6: the ticket property is "#<id>" when the subject gave a ticket id and
\* the empty string when it gave none
C6_TicketDisplay ==
    new_change # None =>
        ticket(new_change[1]) =
            IF new_change[1].commit_ticket = None THEN <<>>
            ELSE <<"#">> \o new_change[1].commit_ticket[1]

----------------------------------------------------------------------------
(* ChangeAspect: C4, C5 (checked under SpecAspect) *)

ClassTag == Sub(ClassMark, 2, Len(ClassMark))
SubsystemTag == Sub(SubsystemMark, 2, Len(SubsystemMark))
Arrow == <<"-", ">">>

\* the custom texts of the directives "[class->custom]" and
\* "[subsystem->custom]" of a description (custom runs to the next "]")
DirectiveCustoms(d) ==
    {Sub(d, a, b) : <<a, b>> \in
        {<<a, b>> \in (1..Len(d)) \X (1..Len(d)) :
            /\ a <= b
            /\ b < Len(d) /\ d[b + 1] = "]"
            /\ \A k \in a..b : d[k] # "]"
            /\ \E mark \in {ClassMark \o Arrow, SubsystemMark \o Arrow} :
                  /\ a > Len(mark)
                  /\ Sub(d, a - Len(mark), a - 1) = mark}}

\* C4: the pattern is "- " and the custom text when the description holds a
\* directive "[class->custom]" or "[subsystem->custom]" anywhere, whatever
\* bracketed text precedes or follows it, and is the default pattern exactly
\* when the description holds no such directive
C4_DirectiveAnywhere ==
    new_aspect # None =>
        LET cs == DirectiveCustoms(arg_label.description)
            pattern == new_aspect[1].aspect_pattern
        IN  /\ cs # {} => \E c \in cs : pattern = <<"-", " ">> \o c
            /\ pattern = DefaultPattern <=> cs = {}

\* the description holds one "[" and one "]", the "[" first
SoleBracket(d) ==
    /\ Cardinality(Positions(d, "[")) = 1
    /\ Cardinality(Positions(d, "]")) = 1
    /\ Min(Positions(d, "[")) < Min(Positions(d, "]"))

Inner(d) == Sub(d, Min(Positions(d, "[")) + 1, Min(Positions(d, "]")) - 1)

\* the custom texts starting with "- " of a description whose only bracketed
\* text is a directive
BulletCustoms(d) ==
    IF ~SoleBracket(d) THEN {}
    ELSE {c \in DirectiveCustoms(d) :
            /\ StartsWith(c, <<"-", " ">>)
            /\ \E tag \in {ClassTag, SubsystemTag} :
                  Inner(d) = tag \o Arrow \o c}

\* C5 as stated: custom text that starts with "- " is the pattern unchanged,
\* with a single bullet, and "[subsystem]" gives the default pattern
C5_CustomTextUnchanged ==
    new_aspect # None =>
        /\ \A c \in BulletCustoms(arg_label.description) :
              new_aspect[1].aspect_pattern = c
        /\ arg_label.description = SubsystemMark \o <<"]">>
              => new_aspect[1].aspect_pattern = DefaultPattern

\* C5 as amended: when a directive is the only bracketed text of the
\* description and its custom text starts with "- ", the pattern is "- "
\* and that custom text, so it starts with two bullets; a description whose
\* only bracketed text has no "->" part gives the default pattern
C5_BulletPrefixed ==
    new_aspect # None =>
        /\ \A c \in BulletCustoms(arg_label.description) :
              new_aspect[1].aspect_pattern = <<"-", " ">> \o c
        /\ (/\ SoleBracket(arg_label.description)
            /\ ~Contains(Inner(arg_label.description), Arrow)
            /\ Inner(arg_label.description) # <<>>)
              => new_aspect[1].aspect_pattern = DefaultPattern

C5_Witness ==
    /\ new_aspect # None
    /\ BulletCustoms(arg_label.description) # {}
    /\ StartsWith(new_aspect[1].aspect_pattern, <<"-", " ", "-", " ">>)
    /\ Len(arg_label.description) > Len(Inner(arg_label.description)) + 2

----------------------------------------------------------------------------
(* report_changelog: C7, C8 (checked under Spec) *)

\* the labels of the ticket a change refers to
TicketLabels(n) ==
    IF changes[n].commit_ticket = None THEN <<>>
    ELSE tracker[changes[n].commit_ticket[1]].labels

\* the positions of the subsystem labels named S among them
SubsystemLabels(n, S) ==
    {j \in 1..Len(TicketLabels(n)) :
        /\ TicketLabels(n)[j].name = S
        /\ Contains(TicketLabels(n)[j].description, SubsystemMark)}

\* where the Changes section starts in the output
ChangesAt == Min({k \in 1..Len(out) : out[k] = Header(ChangesText, 1)})

GroupHeads == {k \in (ChangesAt + 1)..Len(out) : out[k].kind = "header"}

GroupOf(k) == Max({h \in GroupHeads : h < k})

\* the lines of the Changes section that list change n under group S
Listed(n, S) ==
    {k \in (ChangesAt + 1)..Len(out) :
        /\ out[k].kind = "change"
        /\ out[k].change = n
        /\ out[GroupOf(k)].text = S}

\* when subsystem S is first seen while the log is scanned: the change, then
\* the label's place on its ticket
FirstSeen(S) ==
    LET width == 1 + Max({Len(TicketLabels(n)) : n \in 1..Len(changes)})
    IN  Min({n * width + j : <<n, j>> \in
               {<<n, j>> \in (1..Len(changes)) \X (1..width) :
                   j \in SubsystemLabels(n, S)}})

LabelNames ==
    UNION {{TicketLabels(n)[j].name : j \in 1..Len(TicketLabels(n))} :
              n \in 1..Len(changes)}

\* C7: in the Changes section a change is listed under group S once for
\* every subsystem label S on its ticket; groups are told apart by name;
\* they come in the order their subsystems were first seen, and the changes
\* of a group in log order
C7_GroupedBySubsystem ==
    pc = "done" =>
        /\ \A n \in 1..Len(changes) : \A S \in LabelNames :
              Cardinality(Listed(n, S)) = Cardinality(SubsystemLabels(n, S))
        /\ \A h \in GroupHeads :
              /\ out[h].level = 3
              /\ out[h].text \in LabelNames
              /\ \E n \in 1..Len(changes) : Listed(n, out[h].text) # {}
        /\ \A h1, h2 \in GroupHeads :
              h1 < h2 => /\ out[h1].text # out[h2].text
                         /\ FirstSeen(out[h1].text) < FirstSeen(out[h2].text)
        /\ \A k1, k2 \in (ChangesAt + 1)..Len(out) :
              (/\ k1 < k2
               /\ out[k1].kind = "change" /\ out[k2].kind = "change"
               /\ GroupOf(k1) = GroupOf(k2))
                 => out[k1].change < out[k2].change

\* a change listed under two groups, B before A, with a later change of the
\* log after it under B
C7_Witness ==
    /\ pc = "done"
    /\ \E n, m \in 1..Len(changes) : \E k1, k2, k3 \in 1..Len(out) :
          /\ n < m
          /\ k1 \in Listed(n, <<"B">>) /\ k2 \in Listed(m, <<"B">>)
          /\ k3 \in Listed(n, <<"A">>)
          /\ k1 < k2 /\ k2 < k3

\* the subject holds no "#<digits>"
NoTicketReference(m) ==
    ~\E p \in 1..(Len(m) - 1) : m[p] = "#" /\ m[p + 1] \in Digits

\* C8: a Change whose subject carries no ticket reference is in no subsystem
\* group and is printed neither under Highlights nor under Changes
C8_TicketlessSkipped ==
    \A n \in 1..Len(changes) :
        NoTicketReference(changes[n].message) =>
            /\ \A g \in 1..Len(changes_by_subsystem) :
                  \A k \in 1..Len(changes_by_subsystem[g].value) :
                      changes_by_subsystem[g].value[k] # n
            /\ \A k \in 1..Len(out) :
                  out[k].kind = "change" => out[k].change # n

\* a ticketless change between two ticketed ones that were grouped and
\* printed, one of them highlighted
C8_Witness ==
    /\ pc = "done"
    /\ \E n \in 2..(Len(changes) - 1) :
          /\ NoTicketReference(changes[n].message)
          /\ \E k \in 1..ChangesAt : out[k].kind = "change"
          /\ \E k \in ChangesAt..Len(out) :
                out[k].kind = "change" /\ out[k].change < n
          /\ \E k \in ChangesAt..Len(out) :
                out[k].kind = "change" /\ out[k].change > n

----------------------------------------------------------------------------
(* generate_release_notes: C9 (checked under SpecRelease) *)

\* C9: no printed download URL holds a raw "+": every "+" of the version is
\* "%2B" in the release directory and in the installer file name
C9_PlusEncoded ==
    \A k \in 1..Len(out) :
        out[k].kind = "link" =>
            /\ Positions(out[k].url, "+") = {}
            /\ Contains(out[k].url,
                        <<"/", "v">> \o UrlSafe(build_version) \o <<"/">>)

====
